---- MODULE Spec2Model ----
(***************************************************************************)
(* Model of incose_decision_dashboard.py: a Streamlit script that is       *)
(* re-executed top to bottom on every user interaction (upload, domain     *)
(* selection, button press).  One script run is a chain of steps, one per  *)
(* section of the script; st.stop() and an uncaught exception end the run. *)
(*                                                                         *)
(* Text is modelled character by character: a string is a sequence of      *)
(* one-character strings, so that lower(), strip(), the whitespace         *)
(* collapse, substring tests and lexicographic sorting are computed.       *)
(***************************************************************************)
EXTENDS Integers, Sequences, FiniteSets, TLC

(***************************************************************************)
(* Bounds of the explored inputs.                                          *)
(***************************************************************************)
\* longest header (number of columns) of an uploaded sheet
MaxCols == 5
\* longest body of a sheet whose rows are drawn freely from Responses
MaxRows == 3
\* longest run of identical certification-seeking rows in a block sheet
MaxBlock == 11
\* longest run of each of the other two row kinds in a block sheet
MaxOther == 1

(***************************************************************************)
(* Characters and strings.                                                 *)
(***************************************************************************)
\* the characters used, in code point order
Chars == <<"\t", " ", "/", "A", "B", "C", "D", "E", "F", "G", "H", "I", "J", "K", "L", "M", "N", "O", "P", "Q", "R", "S", "T", "U", "V", "W", "X", "Y", "Z", "a", "b", "c", "d", "e", "f", "g", "h", "i", "j", "k", "l", "m", "n", "o", "p", "q", "r", "s", "t", "u", "v", "w", "x", "y", "z">>

\* the rank of each character in that order
CodeOf == [c \in {Chars[i] : i \in 1..Len(Chars)} |-> CHOOSE i \in 1..Len(Chars) : Chars[i] = c]

Code(c) == CodeOf[c]

\* the characters matched by \s and removed by str.strip()
Whitespace == {"\t", " "}

\* Python's None, and pandas' missing cell value (float nan)
None == <<"<None>">>
NaN == <<"<NaN>">>

kw_incose == <<"i", "n", "c", "o", "s", "e">>
kw_member == <<"m", "e", "m", "b", "e", "r">>
kw_decide == <<"d", "e", "c", "i", "d", "e">>
kw_valuable == <<"v", "a", "l", "u", "a", "b", "l", "e">>
kw_domain == <<"d", "o", "m", "a", "i", "n">>
kw_yes == <<"y", "e", "s">>
kw_asep == <<"a", "s", "e", "p">>
kw_csep == <<"c", "s", "e", "p">>
kw_exploring == <<"e", "x", "p", "l", "o", "r", "i", "n", "g">>
s_All == <<"A", "l", "l">>
s_nan == <<"n", "a", "n">>
s_NA == <<"N", "/", "A">>
s_Healthcare == <<"H", "e", "a", "l", "t", "h", "c", "a", "r", "e">>

\* raw column names of the explored sheets
n_Domain == <<"D", "o", "m", "a", "i", "n">>
n_Domain_tab == <<"\t", "D", "o", "m", "a", "i", "n">>
n_Member_2sp == <<"I", "N", "C", "O", "S", "E", " ", " ", "M", "e", "m", "b", "e", "r">>
n_Member == <<"I", "N", "C", "O", "S", "E", " ", "M", "e", "m", "b", "e", "r">>
n_MemberDecide == <<"M", "e", "m", "b", "e", "r", " ", "d", "e", "c", "i", "d", "e">>
n_DECIDE == <<"D", "E", "C", "I", "D", "E">>
n_Valuable == <<"V", "a", "l", "u", "a", "b", "l", "e">>

\* cell values of the explored sheets
v_IT == <<"I", "T">>
v_Yes == <<"Y", "e", "s">>
v_No == <<"N", "o">>
v_Exploring == <<"E", "x", "p", "l", "o", "r", "i", "n", "g">>
v_ASEP == <<"A", "S", "E", "P">>
v_csep == <<"c", "s", "e", "p">>
v_cost == <<"c", "o", "s", "t">>
v_Talks == <<"T", "a", "l", "k", "s">>
v_Events == <<"E", "v", "e", "n", "t", "s">>

\* str.lower() on one character: "A".."Z" are Chars[4..29], "a".."z" follow
LowerOf ==
    [c \in {Chars[i] : i \in 1..Len(Chars)} |->
        IF CodeOf[c] >= 4 /\ CodeOf[c] <= 29 THEN Chars[CodeOf[c] + 26] ELSE c]

lower_char(c) == LowerOf[c]

\* str.lower()
lower(s) == [i \in 1..Len(s) |-> lower_char(s[i])]

\* Python's  k in s  for strings
contains(s, k) == \E i \in 1..(Len(s) - Len(k) + 1) : SubSeq(s, i, i + Len(k) - 1) = k

\* str.strip(): drop leading and trailing whitespace
RECURSIVE lstrip(_)
lstrip(s) == IF s # <<>> /\ Head(s) \in Whitespace THEN lstrip(Tail(s)) ELSE s

RECURSIVE rstrip(_)
rstrip(s) == IF s # <<>> /\ s[Len(s)] \in Whitespace THEN rstrip(SubSeq(s, 1, Len(s) - 1)) ELSE s

strip(s) == rstrip(lstrip(s))

\* str.replace(r"\s+", " ", regex=True): every maximal whitespace run becomes one space
RECURSIVE collapse(_)
collapse(s) ==
    IF s = <<>> THEN <<>>
    ELSE IF Head(s) \in Whitespace
         THEN <<" ">> \o collapse(lstrip(s))
         ELSE <<Head(s)>> \o collapse(Tail(s))

\* the normalisation of one column name
clean_name(s) == collapse(strip(s))

\* Python's string order: code points, a proper prefix first
RECURSIVE str_less(_, _)
str_less(s, t) ==
    IF t = <<>> THEN FALSE
    ELSE IF s = <<>> THEN TRUE
    ELSE IF Head(s) # Head(t) THEN Code(Head(s)) < Code(Head(t))
    ELSE str_less(Tail(s), Tail(t))

\* sorted() on a list of strings
RECURSIVE sorted(_)
sorted(l) ==
    IF l = <<>> THEN <<>>
    ELSE LET m == CHOOSE i \in 1..Len(l) :
                     /\ \A j \in 1..Len(l) : ~ str_less(l[j], l[i])
                     /\ \A j \in 1..(i - 1) : l[j] # l[i]
             rest == [j \in 1..(Len(l) - 1) |-> IF j < m THEN l[j] ELSE l[j + 1]]
         IN <<l[m]>> \o sorted(rest)

(***************************************************************************)
(* pandas operations on one column (a sequence of cells).                  *)
(***************************************************************************)
\* Series.astype(str): a missing cell becomes the text "nan"
astype_str(series) == [i \in 1..Len(series) |-> IF series[i] = NaN THEN s_nan ELSE series[i]]

\* Series.dropna()
RECURSIVE dropna(_)
dropna(series) ==
    IF series = <<>> THEN <<>>
    ELSE IF Head(series) = NaN THEN dropna(Tail(series))
    ELSE <<Head(series)>> \o dropna(Tail(series))

\* Series.unique(): distinct values in order of first appearance
RECURSIVE unique(_)
unique(series) ==
    IF series = <<>> THEN <<>>
    ELSE LET u == unique(SubSeq(series, 1, Len(series) - 1))
             x == series[Len(series)]
         IN IF \E i \in 1..Len(u) : u[i] = x THEN u ELSE Append(u, x)

\* number of cells equal to v
count_of(series, v) == Cardinality({i \in 1..Len(series) : series[i] = v})

\* Series.str.contains("p1|p2|...", case=False, na=False).sum()
contains_count(series, patterns) ==
    Cardinality({i \in 1..Len(series) :
        series[i] # NaN /\ \E p \in patterns : contains(lower(series[i]), p)})

\* Series.value_counts(): missing cells dropped, one <<value, count>> entry per
\* distinct value, by decreasing count, equal counts in order of first appearance
RECURSIVE by_count(_, _)
by_count(labels, series) ==
    IF labels = <<>> THEN <<>>
    ELSE LET m == CHOOSE i \in 1..Len(labels) :
                     /\ \A j \in 1..Len(labels) :
                            count_of(series, labels[j]) <= count_of(series, labels[i])
                     /\ \A j \in 1..(i - 1) :
                            count_of(series, labels[j]) < count_of(series, labels[i])
             rest == [j \in 1..(Len(labels) - 1) |-> IF j < m THEN labels[j] ELSE labels[j + 1]]
         IN <<(<<labels[m], count_of(series, labels[m])>>)>> \o by_count(rest, series)

value_counts(series) == by_count(unique(dropna(series)), series)

\* Series.idxmax() on a value_counts result: the first label holding the maximum
idxmax(counts) ==
    LET m == CHOOSE i \in 1..Len(counts) :
                 /\ \A j \in 1..Len(counts) : counts[j][2] <= counts[i][2]
                 /\ \A j \in 1..(i - 1) : counts[j][2] < counts[i][2]
    IN counts[m][1]

\* Series.head(n).index.tolist()
head_index(counts, n) == [i \in 1..(IF Len(counts) < n THEN Len(counts) ELSE n) |-> counts[i][1]]

\* pd.crosstab(a, b): rows with a missing cell in a or b are dropped; the labels
\* are the sorted distinct values, the cells are pair counts
crosstab(a, b) ==
    LET keep == {i \in 1..Len(a) : a[i] # NaN /\ b[i] # NaN}
        idx == sorted(unique(dropna([i \in 1..Len(a) |-> IF i \in keep THEN a[i] ELSE NaN])))
        cols == sorted(unique(dropna([i \in 1..Len(b) |-> IF i \in keep THEN b[i] ELSE NaN])))
    IN [index |-> idx,
        columns |-> cols,
        cell |-> [p \in {<<idx[i], cols[j]>> : i \in 1..Len(idx), j \in 1..Len(cols)} |->
                    Cardinality({i \in keep : a[i] = p[1] /\ b[i] = p[2]})]]

(***************************************************************************)
(* The uploaded sheets explored.                                           *)
(***************************************************************************)
\* the uploader holds no file
NoFile == [present |-> FALSE, readable |-> FALSE, columns |-> <<>>, rows |-> <<>>]

\* a file openpyxl cannot parse
Unreadable == [present |-> TRUE, readable |-> FALSE, columns |-> <<>>, rows |-> <<>>]

Sheet(cols, body) == [present |-> TRUE, readable |-> TRUE, columns |-> cols, rows |-> body]

Names == {n_Domain, n_Domain_tab, n_Member_2sp, n_Member, n_MemberDecide, n_DECIDE, n_Valuable}

\* read_excel yields pairwise distinct raw column names (repeated header cells
\* are renamed "x.1", "x.2", ...)
Headers ==
    {h \in UNION {[1..n -> Names] : n \in 0..MaxCols} :
        \A i, j \in 1..Len(h) : i # j => h[i] # h[j]}

\* sheets that vary the header: the blank sheet, and every other header with
\* one row answering Yes everywhere
HeaderFiles ==
    {Sheet(<<>>, <<>>)} \cup
    {Sheet(h, <<[i \in 1..Len(h) |-> v_Yes]>>) : h \in Headers \ {<<>>}}

GoodHeader == <<n_Domain, n_Member, n_DECIDE, n_Valuable>>

\* survey responses in the column order of GoodHeader
Responses ==
    { <<s_Healthcare, v_Yes, v_ASEP, v_Talks>>,
      <<v_IT, v_No, v_cost, v_Events>>,
      <<NaN, v_Exploring, v_csep, NaN>>,
      <<s_Healthcare, NaN, v_cost, v_Talks>>,
      <<s_All, v_Yes, v_cost, v_Events>>,
      <<v_IT, v_Exploring, v_ASEP, NaN>> }

\* sheets that vary the rows
BodyFiles == {Sheet(GoodHeader, b) : b \in UNION {[1..n -> Responses] : n \in 0..MaxRows}}

Repeat(row, n) == [i \in 1..n |-> row]

\* sheets made of three runs of identical responses, long enough for the thresholds
BlockFiles ==
    {Sheet(GoodHeader,
           Repeat(<<s_Healthcare, v_Exploring, v_ASEP, v_Talks>>, a)
           \o Repeat(<<v_IT, v_Yes, v_csep, v_Events>>, b)
           \o Repeat(<<s_Healthcare, v_No, v_cost, v_Talks>>, c)) :
        a \in 0..MaxBlock, b \in 0..MaxOther, c \in 0..MaxOther}

Files == {Unreadable} \cup HeaderFiles \cup BodyFiles \cup BlockFiles

(***************************************************************************)
(* Tables.                                                                 *)
(***************************************************************************)
\* df = None
NoTable == [isNone |-> TRUE, columns |-> <<>>, rows |-> <<>>]

\* DataFrame.empty: no column or no row
empty(d) == Len(d.columns) = 0 \/ Len(d.rows) = 0

\* the label occurs more than once, so that df[label] is a DataFrame, not a Series
duplicated(d, name) == Cardinality({i \in 1..Len(d.columns) : d.columns[i] = name}) > 1

\* df[name] for a label that occurs once
Col(d, name) ==
    LET k == CHOOSE i \in 1..Len(d.columns) : d.columns[i] = name
    IN [r \in 1..Len(d.rows) |-> d.rows[r][k]]

\* df[mask]: the rows whose mask entry is true, in order
RECURSIVE select_rows(_, _)
select_rows(rows, mask) ==
    IF rows = <<>> THEN <<>>
    ELSE LET n == Len(rows)
             init == select_rows(SubSeq(rows, 1, n - 1), SubSeq(mask, 1, n - 1))
         IN IF mask[n] THEN Append(init, rows[n]) ELSE init

\* the scan with  any(...)  in place of  all(...)
RECURSIVE scan_columns_any(_, _, _)
scan_columns_any(cols, keywords, i) ==
    IF i > Len(cols) THEN None
    ELSE IF \E k \in keywords : contains(lower(cols[i]), k) THEN cols[i]
    ELSE scan_columns_any(cols, keywords, i + 1)

\* the scan of find_column over the column names from position i on
RECURSIVE scan_columns(_, _, _)
scan_columns(cols, keywords, i) ==
    IF i > Len(cols) THEN None
    ELSE IF \A k \in keywords : contains(lower(cols[i]), k) THEN cols[i]
    ELSE scan_columns(cols, keywords, i + 1)

find_column(d, keywords) == scan_columns(d.columns, keywords, 1)

(***************************************************************************)
(* State.  The widget state survives from one script run to the next; all  *)
(* the rest are the script's variables and the elements rendered by the    *)
(* current run, reset when a run starts.                                   *)
(***************************************************************************)
VARIABLES
    file,               \* the file held by st.file_uploader
    sel,                \* the option held by the "Select Domain" selectbox
    button,             \* this run was started by "Generate Executive Summary"
    pc,                 \* the section the run is at; "idle" between runs
    outcome,            \* how the last run ended; "running" during a run
    rendered,           \* the elements rendered by the run, in order
    df,
    membership_col, confidence_col, expectation_col, domain_col,
    missing,
    domains, selected_domain,
    total_responses, existing_members, need_guidance,    \* the three tiles
    membership_chart, domain_chart, expectation_chart,   \* the three bar charts
    relationship_df,
    domain_counts, expect_counts, top_domain, top_expectation,
    asep_count, risks, opportunities,
    risk_lines, opportunity_lines,                       \* the lines written in the two columns
    summary,
    raw_data                                             \* the table in the raw-data expander

widgetVars == <<file, sel, button>>
detectVars == <<membership_col, confidence_col, expectation_col, domain_col, missing>>
filterVars == <<domains, selected_domain>>
tileVars == <<total_responses, existing_members, need_guidance>>
chartVars == <<membership_chart, domain_chart, expectation_chart>>
insightVars == <<domain_counts, expect_counts, top_domain, top_expectation>>
riskVars == <<asep_count, risks, opportunities, risk_lines, opportunity_lines>>

vars == <<file, sel, button, pc, outcome, rendered, df, detectVars, filterVars, tileVars,
          chartVars, relationship_df, insightVars, riskVars, summary, raw_data>>

NoCrosstab == [index |-> <<>>, columns |-> <<>>, cell |-> <<>>]
NoSummary == [shown |-> FALSE, total |-> 0, top_domain |-> None, top_expectation |-> None]

RISK_GUIDANCE == "Lack of structured ASEP/CSEP guidance may delay membership conversion"
OPP_CONVERSION == "High near-term conversion potential with targeted follow-up"
OPP_HEALTHCARE == "Healthcare domain shows strong potential for focused INCOSE initiatives"
NO_RISKS == "No critical risks identified."
NO_OPPORTUNITIES == "No major opportunities identified."

\* the thresholds of the two counting rules and the length of the domain ranking
ASEP_THRESHOLD == 10
CONVERSION_THRESHOLD == 8
TOP_DOMAINS == 3

\* a script run starts with nothing rendered and every script variable unbound
FreshRun ==
    /\ pc' = "start"
    /\ outcome' = "running"
    /\ rendered' = <<>>
    /\ df' = NoTable
    /\ membership_col' = None /\ confidence_col' = None
    /\ expectation_col' = None /\ domain_col' = None
    /\ missing' = <<>>
    /\ domains' = <<>> /\ selected_domain' = None
    /\ total_responses' = 0 /\ existing_members' = 0 /\ need_guidance' = 0
    /\ membership_chart' = <<>> /\ domain_chart' = <<>> /\ expectation_chart' = <<>>
    /\ relationship_df' = NoCrosstab
    /\ domain_counts' = <<>> /\ expect_counts' = <<>>
    /\ top_domain' = None /\ top_expectation' = None
    /\ asep_count' = 0 /\ risks' = <<>> /\ opportunities' = <<>>
    /\ risk_lines' = <<>> /\ opportunity_lines' = <<>>
    /\ summary' = NoSummary
    /\ raw_data' = NoTable

\* the session opens: first run of the script, nothing uploaded
Init ==
    /\ file = NoFile /\ sel = s_All /\ button = FALSE
    /\ pc = "start"
    /\ outcome = "running"
    /\ rendered = <<>>
    /\ df = NoTable
    /\ membership_col = None /\ confidence_col = None
    /\ expectation_col = None /\ domain_col = None
    /\ missing = <<>>
    /\ domains = <<>> /\ selected_domain = None
    /\ total_responses = 0 /\ existing_members = 0 /\ need_guidance = 0
    /\ membership_chart = <<>> /\ domain_chart = <<>> /\ expectation_chart = <<>>
    /\ relationship_df = NoCrosstab
    /\ domain_counts = <<>> /\ expect_counts = <<>>
    /\ top_domain = None /\ top_expectation = None
    /\ asep_count = 0 /\ risks = <<>> /\ opportunities = <<>>
    /\ risk_lines = <<>> /\ opportunity_lines = <<>>
    /\ summary = NoSummary
    /\ raw_data = NoTable

(***************************************************************************)
(* User interactions.  Each one starts a new run of the whole script.      *)
(***************************************************************************)
\* the user puts a file into the empty uploader
Upload(f) ==
    /\ pc = "idle" /\ ~ file.present
    /\ file' = f /\ button' = FALSE
    /\ UNCHANGED sel
    /\ FreshRun

\* the user removes the uploaded file (replacing a file is removal, then upload)
ClearUpload ==
    /\ pc = "idle" /\ file.present
    /\ file' = NoFile /\ button' = FALSE
    /\ UNCHANGED sel
    /\ FreshRun

\* the user picks one of the options the selectbox of the last run offers
SelectDomain(s) ==
    /\ pc = "idle"
    /\ \E i \in 1..Len(rendered) : rendered[i] = "selectbox"
    /\ \E i \in 1..Len(domains) : domains[i] = s
    /\ s # sel
    /\ sel' = s /\ button' = FALSE
    /\ UNCHANGED file
    /\ FreshRun

\* the user presses "Generate Executive Summary", rendered by the last run
PressButton ==
    /\ pc = "idle"
    /\ \E i \in 1..Len(rendered) : rendered[i] = "button"
    /\ button' = TRUE
    /\ UNCHANGED <<file, sel>>
    /\ FreshRun

(***************************************************************************)
(* The sections of the script.                                             *)
(***************************************************************************)
\* st.stop(), or an uncaught exception: the run ends here
Halt(how, elements) ==
    /\ pc' = "idle"
    /\ outcome' = how
    /\ rendered' = rendered \o elements

\* PAGE CONFIG and FILE UPLOAD.  A selectbox that a run does not render loses
\* its state, so the next one rendered starts at its first option.
PageConfig ==
    /\ pc = "start"
    /\ IF ~ file.present
       THEN /\ Halt("info", <<"title", "caption", "file_uploader", "info">>)
            /\ sel' = s_All
       ELSE /\ pc' = "load"
            /\ rendered' = rendered \o <<"title", "caption", "file_uploader">>
            /\ UNCHANGED <<outcome, sel>>
    /\ UNCHANGED <<file, button, df, detectVars, filterVars, tileVars, chartVars,
                   relationship_df, insightVars, riskVars, summary, raw_data>>

\* LOAD DATA without the test of df.empty
LoadData_noEmptyCheck ==
    /\ pc = "load"
    /\ IF ~ file.readable
       THEN /\ Halt("error", <<"error", "exception">>)
            /\ UNCHANGED df
       ELSE /\ df' = [isNone |-> FALSE, columns |-> file.columns, rows |-> file.rows]
            /\ pc' = "clean"
            /\ UNCHANGED <<outcome, rendered>>
    /\ UNCHANGED <<widgetVars, detectVars, filterVars, tileVars, chartVars,
                   relationship_df, insightVars, riskVars, summary, raw_data>>

\* LOAD DATA
LoadData ==
    /\ pc = "load"
    /\ IF ~ file.readable
       THEN /\ Halt("error", <<"error", "exception">>)
            /\ UNCHANGED df
       ELSE LET d == [isNone |-> FALSE, columns |-> file.columns, rows |-> file.rows]
            IN /\ df' = d
               /\ IF empty(d)
                  THEN Halt("error", <<"error">>)
                  ELSE pc' = "clean" /\ UNCHANGED <<outcome, rendered>>
    /\ UNCHANGED <<widgetVars, detectVars, filterVars, tileVars, chartVars,
                   relationship_df, insightVars, riskVars, summary, raw_data>>

\* CLEAN COLUMN NAMES
CleanColumnNames ==
    /\ pc = "clean"
    /\ df' = [df EXCEPT !.columns = [i \in 1..Len(df.columns) |-> clean_name(df.columns[i])]]
    /\ rendered' = Append(rendered, "success")
    /\ pc' = "detect"
    /\ UNCHANGED <<widgetVars, outcome, detectVars, filterVars, tileVars, chartVars,
                   relationship_df, insightVars, riskVars, summary, raw_data>>

\* the list when the four tests are chained with elif: the first missing role only
missing_roles_first(m, c, e, d) ==
    IF m = None THEN <<"Membership">>
    ELSE IF c = None THEN <<"Decision / Confidence">>
    ELSE IF e = None THEN <<"Expectations">>
    ELSE IF d = None THEN <<"Domain">>
    ELSE <<>>

\* the list built by the four  if ... is None: missing.append(...)  statements
missing_roles(m, c, e, d) ==
    (IF m = None THEN <<"Membership">> ELSE <<>>)
    \o (IF c = None THEN <<"Decision / Confidence">> ELSE <<>>)
    \o (IF e = None THEN <<"Expectations">> ELSE <<>>)
    \o (IF d = None THEN <<"Domain">> ELSE <<>>)

\* SAFE COLUMN DETECTION
ColumnDetection ==
    /\ pc = "detect"
    /\ membership_col' = find_column(df, {kw_incose, kw_member})
    /\ confidence_col' = find_column(df, {kw_decide})
    /\ expectation_col' = find_column(df, {kw_valuable})
    /\ domain_col' = find_column(df, {kw_domain})
    /\ missing' = missing_roles(membership_col', confidence_col', expectation_col', domain_col')
    /\ IF missing' # <<>>
       THEN Halt("error", <<"error">>)
       ELSE pc' = "filter" /\ UNCHANGED <<outcome, rendered>>
    /\ UNCHANGED <<widgetVars, df, filterVars, tileVars, chartVars,
                   relationship_df, insightVars, riskVars, summary, raw_data>>

\* the options without dropna(): the text "nan" of the missing cells is offered too
domain_options_keepna(d, col) == <<s_All>> \o sorted(unique(astype_str(Col(d, col))))

\* the options of the selectbox
domain_options(d, col) == <<s_All>> \o sorted(unique(astype_str(dropna(Col(d, col)))))

\* st.selectbox: the held option, or the first one when the held one is not offered
selectbox(options, held) ==
    IF \E i \in 1..Len(options) : options[i] = held THEN held ELSE options[1]

\* the restriction computed but not assigned back to df
restrict_unassigned(d, col, choice) == d

\* the restriction of the working table to the selected domain
restrict(d, col, choice) ==
    IF choice # s_All
    THEN [d EXCEPT !.rows =
             select_rows(d.rows, [i \in 1..Len(d.rows) |-> astype_str(Col(d, col))[i] = choice])]
    ELSE d

\* DOMAIN FILTER storing the restricted table back into the held sheet
DomainFilter_accumulate ==
    /\ pc = "filter"
    /\ IF duplicated(df, domain_col)
       THEN /\ Halt("exception", <<"subheader_filter", "uncaught">>)
            /\ UNCHANGED <<file, sel, df, filterVars>>
       ELSE LET options == domain_options(df, domain_col)
                choice == selectbox(options, sel)
                d == restrict(df, domain_col, choice)
            IN /\ domains' = options
               /\ selected_domain' = choice
               /\ sel' = choice
               /\ df' = d
               /\ file' = [file EXCEPT !.rows = d.rows]
               /\ IF empty(d)
                  THEN Halt("warning", <<"subheader_filter", "selectbox", "warning">>)
                  ELSE /\ pc' = "outcomes"
                       /\ rendered' = rendered \o <<"subheader_filter", "selectbox">>
                       /\ UNCHANGED outcome
    /\ UNCHANGED <<button, detectVars, tileVars, chartVars,
                   relationship_df, insightVars, riskVars, summary, raw_data>>

\* DOMAIN FILTER.  pd.Series(df[domain_col]) raises when the label is duplicated,
\* because df[domain_col] is then a DataFrame.
DomainFilter ==
    /\ pc = "filter"
    /\ IF duplicated(df, domain_col)
       THEN /\ Halt("exception", <<"subheader_filter", "uncaught">>)
            /\ UNCHANGED <<sel, df, filterVars>>
       ELSE LET options == domain_options(df, domain_col)
                choice == selectbox(options, sel)
                d == restrict(df, domain_col, choice)
            IN /\ domains' = options
               /\ selected_domain' = choice
               /\ sel' = choice
               /\ df' = d
               /\ IF empty(d)
                  THEN Halt("warning", <<"subheader_filter", "selectbox", "warning">>)
                  ELSE /\ pc' = "outcomes"
                       /\ rendered' = rendered \o <<"subheader_filter", "selectbox">>
                       /\ UNCHANGED outcome
    /\ UNCHANGED <<file, button, detectVars, tileVars, chartVars,
                   relationship_df, insightVars, riskVars, summary, raw_data>>

\* KEY OUTCOMES.  A duplicated label makes df[label].astype(str) a DataFrame,
\* which has no .str accessor: AttributeError.
KeyOutcomes ==
    /\ pc = "outcomes"
    /\ total_responses' = Len(df.rows)
    /\ IF duplicated(df, membership_col)
       THEN /\ Halt("exception", <<"header_outcomes", "metric_total", "uncaught">>)
            /\ UNCHANGED <<existing_members, need_guidance>>
       ELSE /\ existing_members' = contains_count(astype_str(Col(df, membership_col)), {kw_yes})
            /\ IF duplicated(df, confidence_col)
               THEN /\ Halt("exception", <<"header_outcomes", "metric_total",
                                           "metric_members", "uncaught">>)
                    /\ UNCHANGED need_guidance
               ELSE /\ need_guidance' =
                           contains_count(astype_str(Col(df, confidence_col)), {kw_asep, kw_csep})
                    /\ pc' = "distributions"
                    /\ rendered' = rendered \o <<"header_outcomes", "metric_total",
                                                 "metric_members", "metric_guidance">>
                    /\ UNCHANGED outcome
    /\ UNCHANGED <<widgetVars, df, detectVars, filterVars, chartVars,
                   relationship_df, insightVars, riskVars, summary, raw_data>>

\* DISTRIBUTIONS
Distributions ==
    /\ pc = "distributions"
    /\ membership_chart' = value_counts(astype_str(Col(df, membership_col)))
    /\ domain_chart' = value_counts(astype_str(Col(df, domain_col)))
    /\ expectation_chart' = value_counts(astype_str(Col(df, expectation_col)))
    /\ rendered' = rendered \o <<"header_distributions", "chart_membership",
                                 "chart_domain", "chart_expectation">>
    /\ pc' = "relationships"
    /\ UNCHANGED <<widgetVars, outcome, df, detectVars, filterVars, tileVars,
                   relationship_df, insightVars, riskVars, summary, raw_data>>

\* RELATIONSHIPS on the columns as they are, without astype(str)
Relationships_raw ==
    /\ pc = "relationships"
    /\ relationship_df' = crosstab(Col(df, domain_col), Col(df, membership_col))
    /\ rendered' = rendered \o <<"header_relationships", "table_crosstab">>
    /\ pc' = "insights"
    /\ UNCHANGED <<widgetVars, outcome, df, detectVars, filterVars, tileVars, chartVars,
                   insightVars, riskVars, summary, raw_data>>

\* RELATIONSHIPS
Relationships ==
    /\ pc = "relationships"
    /\ relationship_df' = crosstab(astype_str(Col(df, domain_col)),
                                   astype_str(Col(df, membership_col)))
    /\ rendered' = rendered \o <<"header_relationships", "table_crosstab">>
    /\ pc' = "insights"
    /\ UNCHANGED <<widgetVars, outcome, df, detectVars, filterVars, tileVars, chartVars,
                   insightVars, riskVars, summary, raw_data>>

\* KEY INSIGHTS
KeyInsights ==
    /\ pc = "insights"
    /\ domain_counts' = value_counts(astype_str(Col(df, domain_col)))
    /\ expect_counts' = value_counts(astype_str(Col(df, expectation_col)))
    /\ top_domain' = IF domain_counts' # <<>> THEN idxmax(domain_counts') ELSE s_NA
    /\ top_expectation' = IF expect_counts' # <<>> THEN idxmax(expect_counts') ELSE s_NA
    /\ rendered' = rendered \o <<"header_insights", "insight_summary">>
    /\ pc' = "risks"
    /\ UNCHANGED <<widgetVars, outcome, df, detectVars, filterVars, tileVars, chartVars,
                   relationship_df, riskVars, summary, raw_data>>

\* the guidance rule with >= in place of >
guidance_risk_ge(n) == IF n >= ASEP_THRESHOLD THEN <<RISK_GUIDANCE>> ELSE <<>>

\* if asep_count > 10: risks.append(...)
guidance_risk(n) == IF n > ASEP_THRESHOLD THEN <<RISK_GUIDANCE>> ELSE <<>>

\* RISKS & OPPORTUNITIES
RisksOpportunities ==
    /\ pc = "risks"
    /\ asep_count' = contains_count(astype_str(Col(df, confidence_col)), {kw_asep, kw_csep})
    /\ risks' = guidance_risk(asep_count')
    /\ opportunities' =
           (IF contains_count(astype_str(Col(df, membership_col)), {kw_exploring, kw_decide})
                   > CONVERSION_THRESHOLD
            THEN <<OPP_CONVERSION>> ELSE <<>>)
           \o (IF \E i \in 1..Len(head_index(domain_counts, TOP_DOMAINS)) :
                      head_index(domain_counts, TOP_DOMAINS)[i] = s_Healthcare
               THEN <<OPP_HEALTHCARE>> ELSE <<>>)
    /\ risk_lines' = IF risks' # <<>> THEN risks' ELSE <<NO_RISKS>>
    /\ opportunity_lines' = IF opportunities' # <<>> THEN opportunities' ELSE <<NO_OPPORTUNITIES>>
    /\ rendered' = rendered \o <<"header_risks", "risk_list", "opportunity_list">>
    /\ pc' = "recommendations"
    /\ UNCHANGED <<widgetVars, outcome, df, detectVars, filterVars, tileVars, chartVars,
                   relationship_df, insightVars, summary, raw_data>>

\* STRATEGIC RECOMMENDATIONS: six fixed lines
StrategicRecommendations ==
    /\ pc = "recommendations"
    /\ rendered' = rendered \o <<"header_recommendations", "recommendations">>
    /\ pc' = "summary"
    /\ UNCHANGED <<widgetVars, outcome, df, detectVars, filterVars, tileVars, chartVars,
                   relationship_df, insightVars, riskVars, summary, raw_data>>

\* EXECUTIVE SUMMARY: st.button is true only in the run its press started
ExecutiveSummary ==
    /\ pc = "summary"
    /\ IF button
       THEN /\ summary' = [shown |-> TRUE, total |-> Len(df.rows),
                           top_domain |-> top_domain, top_expectation |-> top_expectation]
            /\ rendered' = rendered \o <<"header_summary", "button", "summary_text">>
       ELSE /\ rendered' = rendered \o <<"header_summary", "button">>
            /\ UNCHANGED summary
    /\ pc' = "rawdata"
    /\ UNCHANGED <<widgetVars, outcome, df, detectVars, filterVars, tileVars, chartVars,
                   relationship_df, insightVars, riskVars, raw_data>>

\* RAW DATA: the last statement of the script
RawData ==
    /\ pc = "rawdata"
    /\ raw_data' = df
    /\ Halt("report", <<"raw_data">>)
    /\ UNCHANGED <<widgetVars, df, detectVars, filterVars, tileVars, chartVars,
                   relationship_df, insightVars, riskVars, summary>>

Next ==
    \/ \E f \in Files : Upload(f)
    \/ ClearUpload
    \/ \E s \in {s_All, s_Healthcare, v_IT, v_Yes, s_nan} : SelectDomain(s)
    \/ PressButton
    \/ PageConfig
    \/ LoadData
    \/ CleanColumnNames
    \/ ColumnDetection
    \/ DomainFilter
    \/ KeyOutcomes
    \/ Distributions
    \/ Relationships
    \/ KeyInsights
    \/ RisksOpportunities
    \/ StrategicRecommendations
    \/ ExecutiveSummary
    \/ RawData

Spec == Init /\ [][Next]_vars

(***************************************************************************)
(* Vocabulary of the properties.                                           *)
(***************************************************************************)
Rendered(tag) == \E i \in 1..Len(rendered) : rendered[i] = tag

Times(tag) == Cardinality({i \in 1..Len(rendered) : rendered[i] = tag})

\* the elements of the report proper
ReportTags ==
    {"subheader_filter", "selectbox", "header_outcomes", "metric_total", "metric_members",
     "metric_guidance", "header_distributions", "chart_membership", "chart_domain",
     "chart_expectation", "header_relationships", "table_crosstab", "header_insights",
     "insight_summary", "header_risks", "risk_list", "opportunity_list",
     "header_recommendations", "recommendations", "header_summary", "button",
     "summary_text", "raw_data"}

NoReportElement == \A i \in 1..Len(rendered) : rendered[i] \notin ReportTags

\* no variable of a section after LOAD DATA has been bound
NothingComputed ==
    /\ membership_col = None /\ confidence_col = None
    /\ expectation_col = None /\ domain_col = None
    /\ missing = <<>> /\ domains = <<>> /\ selected_domain = None
    /\ ~ Rendered("success")

\* the uploaded sheet has no column or no row
FileEmpty == Len(file.columns) = 0 \/ Len(file.rows) = 0

\* the normalised column names of the uploaded sheet
CleanNames == [i \in 1..Len(file.columns) |-> clean_name(file.columns[i])]

\* the positions of the columns whose lowercased name contains every keyword
Matching(cols, keywords) ==
    {i \in 1..Len(cols) : \A k \in keywords : contains(lower(cols[i]), k)}

FirstMatch(cols, keywords) ==
    IF Matching(cols, keywords) = {} THEN None
    ELSE cols[CHOOSE i \in Matching(cols, keywords) : \A j \in Matching(cols, keywords) : i <= j]

RoleKeywords ==
    [Membership |-> {kw_incose, kw_member}, Confidence |-> {kw_decide},
     Expectations |-> {kw_valuable}, Domain |-> {kw_domain}]

Unresolved(role) == Matching(CleanNames, RoleKeywords[role]) = {}

\* the cell of row r of the uploaded sheet in the first column matching the role
Cell(r, role) ==
    r[CHOOSE i \in Matching(CleanNames, RoleKeywords[role]) :
          \A j \in Matching(CleanNames, RoleKeywords[role]) : i <= j]

Text(v) == IF v = NaN THEN s_nan ELSE v

\* the rows of the uploaded sheet that a domain selection keeps
Keeps(choice, r) == choice = s_All \/ Text(Cell(r, "Domain")) = choice

Kept(choice) == {i \in 1..Len(file.rows) : Keeps(choice, file.rows[i])}

KeptRows(choice) == LET Test(r) == Keeps(choice, r) IN SelectSeq(file.rows, Test)

\* a row seeks certification guidance
SeeksGuidance(r) ==
    \/ contains(lower(Text(Cell(r, "Confidence"))), kw_asep)
    \/ contains(lower(Text(Cell(r, "Confidence"))), kw_csep)

GuidanceSeekers(choice) == Cardinality({i \in Kept(choice) : SeeksGuidance(file.rows[i])})

\* the run has got past the section
Past(sections) == pc \notin ({"start", "load", "clean", "detect"} \cup sections)

(***************************************************************************)
(* C1  An upload that cannot be parsed, or that parses to a table without  *)
(* rows or columns, gets exactly one error and the run halts there: no     *)
(* element of the report is rendered and neither column detection nor the  *)
(* domain filter is executed.                                              *)
(***************************************************************************)
C1_FailFast ==
    (file.present /\ (~ file.readable \/ FileEmpty)) =>
        /\ pc \in {"start", "load", "idle"}
        /\ NoReportElement
        /\ NothingComputed
        /\ pc = "idle" => (outcome = "error" /\ Times("error") = 1)

C1_Witness ==
    /\ pc = "idle" /\ outcome = "error"
    /\ file.readable /\ Len(file.columns) = 4 /\ file.rows = <<>>

(***************************************************************************)
(* C2  After a non-empty load, the run aborts with one error listing       *)
(* exactly the unresolved roles, all of them, and renders nothing of the   *)
(* report, if some role is unresolved; otherwise it shows no error.        *)
(***************************************************************************)
UnresolvedList ==
    (IF Unresolved("Membership") THEN <<"Membership">> ELSE <<>>)
    \o (IF Unresolved("Confidence") THEN <<"Decision / Confidence">> ELSE <<>>)
    \o (IF Unresolved("Expectations") THEN <<"Expectations">> ELSE <<>>)
    \o (IF Unresolved("Domain") THEN <<"Domain">> ELSE <<>>)

\* C2: one error listing exactly the unresolved roles and no report element, or no error
C2_MissingRoles ==
    (file.present /\ file.readable /\ ~ FileEmpty /\ Past({})) =>
        IF UnresolvedList # <<>>
        THEN /\ pc = "idle" /\ outcome = "error"
             /\ Times("error") = 1
             /\ missing = UnresolvedList
             /\ NoReportElement
        ELSE /\ ~ Rendered("error")
             /\ missing = <<>>

C2_Witness ==
    /\ pc = "idle" /\ outcome = "error"
    /\ missing = <<"Membership", "Expectations">>

(***************************************************************************)
(* C3  No run ends in an uncaught exception: every run ends with the info  *)
(* prompt, an error message, the warning or the complete report.           *)
(***************************************************************************)
C3_NoUncaughtException ==
    /\ outcome \in {"running", "info", "error", "warning", "report"}
    /\ ~ Rendered("uncaught")

(***************************************************************************)
(* C4  Once column detection has run, each role is bound to the first      *)
(* column, in column order, whose lowercased normalised name contains      *)
(* every keyword of the role, and to None exactly when there is no such    *)
(* column; the binding is a function of the ordered column names alone.    *)
(***************************************************************************)
C4_FirstMatchingColumn ==
    (Rendered("success") /\ pc # "detect") =>
        /\ df.columns = CleanNames
        /\ membership_col = FirstMatch(CleanNames, RoleKeywords["Membership"])
        /\ confidence_col = FirstMatch(CleanNames, RoleKeywords["Confidence"])
        /\ expectation_col = FirstMatch(CleanNames, RoleKeywords["Expectations"])
        /\ domain_col = FirstMatch(CleanNames, RoleKeywords["Domain"])
        /\ (membership_col = None) = Unresolved("Membership")
        /\ (confidence_col = None) = Unresolved("Confidence")
        /\ (expectation_col = None) = Unresolved("Expectations")
        /\ (domain_col = None) = Unresolved("Domain")

\* two differently named columns match the confidence keywords, a column holding
\* only one of the two membership keywords precedes the membership column
C4_Witness ==
    /\ Rendered("success") /\ pc = "idle"
    /\ Cardinality({CleanNames[i] : i \in Matching(CleanNames, {kw_decide})}) = 2
    /\ CleanNames[1] = n_MemberDecide
    /\ confidence_col = n_MemberDecide
    /\ membership_col = n_Member

(***************************************************************************)
(* C5  For every domain selection the working table is the rows of the     *)
(* loaded table whose domain cell, as text, equals the selection (all the  *)
(* rows under "All"), and the Total Responses tile is its row count.       *)
(***************************************************************************)
C5_FilterAndTotal ==
    /\ (Rendered("success") /\ Past({"filter"}) /\ selected_domain # None) =>
           /\ df.rows = KeptRows(selected_domain)
           /\ selected_domain = s_All => df.rows = file.rows
    /\ Rendered("metric_total") =>
           /\ total_responses = Cardinality(Kept(selected_domain))
           /\ total_responses = Len(df.rows)
           /\ selected_domain = s_All => total_responses = Len(file.rows)

C5_Witness ==
    /\ pc = "idle" /\ outcome = "report"
    /\ selected_domain = v_IT
    /\ total_responses = 2 /\ Len(file.rows) = 3

(***************************************************************************)
(* C6  The cross-tabulation agrees with the two frequency charts of the    *)
(* same filtered table, missing cells included: each domain row sums to    *)
(* the count of that domain value, each membership column sums to the      *)
(* count of that membership value, the grand total is Total Responses.     *)
(***************************************************************************)
RECURSIVE SumOver(_, _)
SumOver(S, f) ==
    IF S = {} THEN 0
    ELSE LET x == CHOOSE y \in S : TRUE IN f[x] + SumOver(S \ {x}, f)

Range(q) == {q[i] : i \in 1..Len(q)}

\* the frequency chart as a set of <<value, count>> bars
Bars(chart) == Range(chart)

RowSum(t, d) == SumOver({<<d, m>> : m \in Range(t.columns)}, t.cell)

ColumnSum(t, m) == SumOver({<<d, m>> : d \in Range(t.index)}, t.cell)

\* C6: the margins of the cross-tabulation are the two frequency charts
C6_CrosstabMargins ==
    Rendered("table_crosstab") =>
        /\ Bars(domain_chart) = {<<d, RowSum(relationship_df, d)>> : d \in Range(relationship_df.index)}
        /\ Bars(membership_chart) =
               {<<m, ColumnSum(relationship_df, m)>> : m \in Range(relationship_df.columns)}
        /\ SumOver(DOMAIN relationship_df.cell, relationship_df.cell) = total_responses

\* a report on a table with a row without domain and a row without membership
C6_Witness ==
    /\ pc = "idle" /\ outcome = "report"
    /\ \E i \in 1..Len(df.rows) : df.rows[i][1] = NaN
    /\ \E i \in 1..Len(df.rows) : df.rows[i][2] = NaN
    /\ Len(relationship_df.index) = 2 /\ Len(relationship_df.columns) = 2

(***************************************************************************)
(* C7  In every rendered report the guidance risk line is listed exactly   *)
(* when more than 10 rows of the filtered table mention ASEP or CSEP in    *)
(* the confidence field; that number is the Need ASEP / CSEP Guidance      *)
(* tile; the placeholder is written exactly when the line is absent.       *)
(***************************************************************************)
C7_GuidanceRisk ==
    Rendered("risk_list") =>
        /\ need_guidance = GuidanceSeekers(selected_domain)
        /\ asep_count = need_guidance
        /\ (RISK_GUIDANCE \in Range(risk_lines)) = (GuidanceSeekers(selected_domain) > 10)
        /\ (NO_RISKS \in Range(risk_lines)) = (RISK_GUIDANCE \notin Range(risk_lines))

\* 11 of the 12 seekers of the sheet are left by the filter: the line is listed
C7_Witness ==
    /\ pc = "idle" /\ outcome = "report"
    /\ selected_domain = s_Healthcare
    /\ GuidanceSeekers(s_All) = 12
    /\ need_guidance = 11
    /\ risk_lines = <<RISK_GUIDANCE>>

(***************************************************************************)
(* C10 Every option of the selectbox but the leading "All" is the text of  *)
(* a non-missing domain cell of the loaded table, so that each offered     *)
(* option keeps at least one row and no run ends with the warning.         *)
(***************************************************************************)
C10_OptionsKeepRows ==
    /\ outcome # "warning"
    /\ ~ Rendered("warning")
    /\ Rendered("selectbox") =>
           /\ domains[1] = s_All
           /\ \A k \in 2..Len(domains) :
                  \E i \in 1..Len(file.rows) :
                      /\ Cell(file.rows[i], "Domain") # NaN
                      /\ domains[k] = Cell(file.rows[i], "Domain")
           /\ \A k \in 1..Len(domains) : Kept(domains[k]) # {}
           /\ Len(df.rows) >= 1

\* a concrete option is selected on a table that also has a row without domain
C10_Witness ==
    /\ pc = "idle" /\ outcome = "report"
    /\ Len(domains) = 3 /\ selected_domain = domains[3]
    /\ \E i \in 1..Len(file.rows) : file.rows[i][1] = NaN

(***************************************************************************)
(* C9  Every run recomputes from the whole uploaded sheet: no run changes  *)
(* the held sheet or the held selection, and whatever a complete report    *)
(* shows - tiles, charts, cross-tabulation, insights, flags, summary, raw  *)
(* table - is determined by the uploaded sheet and the selection held by   *)
(* the selectbox, however many selections and button presses came before.  *)
(***************************************************************************)
\* the column of a role in the rows a selection keeps, as text
KeptColumn(role, choice) ==
    [i \in 1..Len(KeptRows(choice)) |-> Text(Cell(KeptRows(choice)[i], role))]

Mentions(role, choice, patterns) ==
    Cardinality({i \in 1..Len(KeptRows(choice)) :
        \E p \in patterns : contains(lower(KeptColumn(role, choice)[i]), p)})

ReportOf(choice) ==
    /\ selected_domain = choice
    /\ raw_data.rows = KeptRows(choice)
    /\ total_responses = Len(KeptRows(choice))
    /\ existing_members = Mentions("Membership", choice, {kw_yes})
    /\ need_guidance = Mentions("Confidence", choice, {kw_asep, kw_csep})
    /\ membership_chart = value_counts(KeptColumn("Membership", choice))
    /\ domain_chart = value_counts(KeptColumn("Domain", choice))
    /\ expectation_chart = value_counts(KeptColumn("Expectations", choice))
    /\ relationship_df = crosstab(KeptColumn("Domain", choice), KeptColumn("Membership", choice))
    /\ top_domain = value_counts(KeptColumn("Domain", choice))[1][1]
    /\ top_expectation = value_counts(KeptColumn("Expectations", choice))[1][1]
    /\ (RISK_GUIDANCE \in Range(risk_lines))
           = (Mentions("Confidence", choice, {kw_asep, kw_csep}) > 10)
    /\ (OPP_CONVERSION \in Range(opportunity_lines))
           = (Mentions("Membership", choice, {kw_exploring, kw_decide}) > 8)
    /\ (OPP_HEALTHCARE \in Range(opportunity_lines))
           = (\E i \in 1..3 : /\ i <= Len(value_counts(KeptColumn("Domain", choice)))
                              /\ value_counts(KeptColumn("Domain", choice))[i][1] = s_Healthcare)
    /\ summary.shown = button
    /\ button => /\ summary.total = Len(KeptRows(choice))
                 /\ summary.top_domain = top_domain
                 /\ summary.top_expectation = top_expectation

\* a complete report is the report of the held sheet under the held selection
C9_ReportIsCurrent == (pc = "idle" /\ outcome = "report") => ReportOf(sel)

\* C9: a complete report is current, and no section of a run writes the held sheet
\* or the held selection
C9_NoAccumulation ==
    /\ [] C9_ReportIsCurrent
    /\ [][(pc # "idle" /\ file.present) => (file' = file /\ sel' = sel)]_vars

\* the summary is requested on a filtered view that was reached from another filter
C9_Witness ==
    /\ pc = "idle" /\ outcome = "report" /\ button
    /\ sel = v_IT /\ Len(domains) = 4
    /\ total_responses = 1 /\ Len(file.rows) = 3

====
